---- MODULE Spec2Model ----
(***************************************************************************)
(* ProcessScheduler (main.go): four scheduling policies run over one list  *)
(* of processes.  main loads the list once and hands the same slice (the   *)
(* same backing array) to FCFSSchedule, SJFSchedule, SJFPrioritySchedule   *)
(* and RRSchedule in turn.  Each policy builds a Gantt timeline            *)
(* ([]TimeSlice), a schedule table (one row per slot) and three averages.  *)
(*                                                                         *)
(* Indices are 1-based here and 0-based in the Go source: slot k of the    *)
(* model is index k-1 of the source.  lastExecuted and head count the      *)
(* slots already passed, so the boundary slot is lastExecuted + 1.         *)
(* Table rows hold the integers that the source prints with fmt.Sprint.    *)
(***************************************************************************)
EXTENDS Integers, Sequences, FiniteSets, TLC

\* ---------------------------------------------------------------- bounds
MaxProcs == 3
MaxArrival == 1
MaxBurst == 2
MaxQuantum == 2

\* The time quantum main passes to RRSchedule.
DefaultQuantum == 1

VARIABLES
    input,            \* the list as loadProcesses returned it (never written)
    processes,        \* the backing array main and every policy share
    entry,            \* "main", or the one policy that is called directly
    policy,           \* the policy that is running
    pc,               \* "call", "loop", "slice", "done", "panic"
    serviceTime, waitingTime, i, lastExecuted,
    totalWait, totalTurnaround, lastCompletion,
    schedule, gantt, summary,
    timeSlice, currentTime, queue, head,
    process, start, completion, burstLeft, timeElapsed

vars == << input, processes, entry, policy, pc,
           serviceTime, waitingTime, i, lastExecuted,
           totalWait, totalTurnaround, lastCompletion,
           schedule, gantt, summary,
           timeSlice, currentTime, queue, head,
           process, start, completion, burstLeft, timeElapsed >>

rrLocals == << timeSlice, currentTime, queue, head,
               process, start, completion, burstLeft, timeElapsed >>

\* ------------------------------------------------------------ data model
Process(id, arrival, burst, prio) ==
    [ProcessID |-> id, ArrivalTime |-> arrival, BurstDuration |-> burst, Priority |-> prio]

ZeroProcess == Process(0, 0, 0, 0)

TimeSlice(pid, from, to) == [PID |-> pid, Start |-> from, Stop |-> to]

\* A schedule slot before it is written: the nil []string of make([][]string, n).
NilRow == << >>

Row(p, wait, turnaround, exit) ==
    [ID |-> p.ProcessID, Priority |-> p.Priority, Burst |-> p.BurstDuration,
     Arrival |-> p.ArrivalTime, Wait |-> wait, Turnaround |-> turnaround, Exit |-> exit]

NilSchedule(n) == [k \in 1..n |-> NilRow]

\* A float64 quotient, kept as the pair it is computed from: den = 0 is the
\* NaN (0/0) or +Inf (n/0) of the source, never a panic.
Ratio(num, den) == [num |-> num, den |-> den]

NoSummary == [aveWait |-> Ratio(0, 1), aveTurnaround |-> Ratio(0, 1), aveThroughput |-> Ratio(0, 1)]

Summary(wait, turnaround, count, last) ==
    [aveWait |-> Ratio(wait, count),
     aveTurnaround |-> Ratio(turnaround, count),
     aveThroughput |-> Ratio(count, last)]

Min(a, b) == IF a < b THEN a ELSE b

\* ---------------------------------------------------------------- inputs
\* The example file: records "id,burst,arrival,priority" 1,5,0,1 / 2,3,2,2 /
\* 3,1,4,3.
ExampleProcesses ==
    << Process(1, 0, 5, 1), Process(2, 2, 3, 2), Process(3, 4, 1, 3) >>

\* The CPU goes idle between the first process's end and the second's arrival.
GapProcesses ==
    << Process(1, 0, 1, 1), Process(2, 2, 1, 2) >>

\* Ids that are unique but not 1..n.
SparseIdProcesses ==
    << Process(2, 0, 1, 2), Process(5, 1, 2, 5) >>

\* Six processes without ties: under the Priority policy P1 runs 0..3, then
\* P4 is selected over P2 and P3 (an overwrite that leaves the pending slots
\* out of arrival order), and P5 and P6 arrive after the CPU has gone idle.
OverwriteProcesses ==
    << Process(1, 0, 3, 1), Process(2, 1, 3, 2), Process(3, 2, 2, 3),
       Process(4, 3, 1, 4), Process(5, 10, 1, 5), Process(6, 12, 1, 6) >>

\* Every list of n processes within the bounds, ids 1..n in file order.  No
\* policy reads Priority except to print it, so it follows the id as in the
\* example.
ProcessLists(n) ==
    { [k \in 1..n |-> Process(k, a[k], b[k], k)] :
        a \in [1..n -> 0..MaxArrival], b \in [1..n -> 1..MaxBurst] }

Inputs ==
    UNION { ProcessLists(n) : n \in 0..MaxProcs }
        \cup { ExampleProcesses, GapProcesses, SparseIdProcesses, OverwriteProcesses }

\* ------------------------------------------------------------ sort.Slice
Perms(n) == { p \in [1..n -> 1..n] : \A x, y \in 1..n : x # y => p[x] # p[y] }

\* The less functions: processes[i].<key> < processes[j].<key>, the key being
\* the field "BurstDuration" (SJF) or "ArrivalTime" (Priority, Round-robin).
Less(a, b, key) == a[key] < b[key]

Sorted(t, key) == \A x, y \in 1..Len(t) : x < y => ~Less(t[y], t[x], key)

\* sort.Slice is not stable: every arrangement of s that is ordered by less
\* is a possible result.
SortSlice(s, key) ==
    { t \in { [k \in 1..Len(s) |-> s[p[k]]] : p \in Perms(Len(s)) } : Sorted(t, key) }

\* ------------------------------------------------------------- prologue
\* The var block of a policy: Go zero values, a table of nil rows, an empty
\* timeline.  Variables a policy does not declare stay at their zero value.
Locals(sorted, q) ==
    /\ processes' = sorted
    /\ serviceTime' = 0
    /\ waitingTime' = 0
    /\ i' = 1
    /\ lastExecuted' = 0
    /\ totalWait' = 0
    /\ totalTurnaround' = 0
    /\ lastCompletion' = 0
    /\ schedule' = NilSchedule(Len(sorted))
    /\ gantt' = << >>
    /\ summary' = NoSummary
    /\ timeSlice' = q
    /\ currentTime' = 0
    /\ queue' = << >>
    /\ head' = 0
    /\ process' = ZeroProcess
    /\ start' = 0
    /\ completion' = 0
    /\ burstLeft' = 0
    /\ timeElapsed' = 0
    /\ pc' = "loop"
    /\ UNCHANGED << input, entry, policy >>

\* ----------------------------------------------- the shared loop body
\* LatchedWait without the latch: the waiting time is computed afresh for
\* every process.
LatchedWaitFresh(p) == serviceTime - p.ArrivalTime

\* LatchedWait without the subtraction of the arrival time.
LatchedWaitNoArrival(p) ==
    IF p.ArrivalTime > 0 THEN serviceTime ELSE waitingTime

\* if p.ArrivalTime > 0 { waitingTime = serviceTime - p.ArrivalTime }
LatchedWait(p) ==
    IF p.ArrivalTime > 0 THEN serviceTime - p.ArrivalTime ELSE waitingTime

\* The accounting FCFS, SJF and Priority do for the process p stored in slot
\* k: waiting time, totals, the row written to slot k, one timeline interval.
Account(p, k) ==
    LET wait       == LatchedWait(p)
        from       == wait + p.ArrivalTime
        turnaround == p.BurstDuration + wait
        exit       == p.BurstDuration + p.ArrivalTime + wait
    IN  /\ waitingTime' = wait
        /\ totalWait' = totalWait + wait
        /\ totalTurnaround' = totalTurnaround + turnaround
        /\ lastCompletion' = exit
        /\ schedule' = [schedule EXCEPT ![k] = Row(p, wait, turnaround, exit)]
        /\ serviceTime' = serviceTime + p.BurstDuration
        /\ gantt' = Append(gantt, TimeSlice(p.ProcessID, from, serviceTime + p.BurstDuration))

\* count, the three averages, and the output calls.
Averages ==
    /\ summary' = Summary(totalWait, totalTurnaround, Len(processes), lastCompletion)
    /\ pc' = "done"

\* ------------------------------------------------------------------ FCFS
CallFCFS ==
    /\ pc = "call" /\ policy = "FCFS"
    /\ Locals(processes, 0)

FCFSIter ==
    /\ pc = "loop" /\ policy = "FCFS"
    /\ i <= Len(processes)
    /\ Account(processes[i], i)
    /\ i' = i + 1
    /\ UNCHANGED << input, processes, entry, policy, pc, lastExecuted, summary >>
    /\ UNCHANGED rrLocals

\* FCFSReturn with the loop bound off by one: the loop may end before the
\* last process.
FCFSReturnEarly ==
    /\ pc = "loop" /\ policy = "FCFS"
    /\ i >= Len(processes)
    /\ Averages
    /\ UNCHANGED << input, processes, entry, policy, serviceTime, waitingTime, i,
                    lastExecuted, totalWait, totalTurnaround, lastCompletion,
                    schedule, gantt >>
    /\ UNCHANGED rrLocals

FCFSReturn ==
    /\ pc = "loop" /\ policy = "FCFS"
    /\ i > Len(processes)
    /\ Averages
    /\ UNCHANGED << input, processes, entry, policy, serviceTime, waitingTime, i,
                    lastExecuted, totalWait, totalTurnaround, lastCompletion,
                    schedule, gantt >>
    /\ UNCHANGED rrLocals

\* ------------------------------------------------------------------- SJF
\* The var block, then sort.Slice by BurstDuration on the caller's array.
CallSJF ==
    /\ pc = "call" /\ policy = "SJF"
    /\ \E sorted \in SortSlice(processes, "BurstDuration") : Locals(sorted, 0)

SJFIter ==
    /\ pc = "loop" /\ policy = "SJF"
    /\ i <= Len(processes)
    /\ Account(processes[i], i)
    /\ i' = i + 1
    /\ UNCHANGED << input, processes, entry, policy, pc, lastExecuted, summary >>
    /\ UNCHANGED rrLocals

SJFReturn ==
    /\ pc = "loop" /\ policy = "SJF"
    /\ i > Len(processes)
    /\ Averages
    /\ UNCHANGED << input, processes, entry, policy, serviceTime, waitingTime, i,
                    lastExecuted, totalWait, totalTurnaround, lastCompletion,
                    schedule, gantt >>
    /\ UNCHANGED rrLocals

\* -------------------------------------------------------------- Priority
\* The var block, then sort.Slice by ArrivalTime on the caller's array.
CallPriority ==
    /\ pc = "call" /\ policy = "Priority"
    /\ \E sorted \in SortSlice(processes, "ArrivalTime") : Locals(sorted, 0)

\* Scan with the burst comparison inverted: keeps the arrived slot of
\* greatest burst.
RECURSIVE ScanLongest(_, _, _, _)
ScanLongest(ps, k, st, best) ==
    IF k > Len(ps) THEN best
    ELSE IF ps[k].ArrivalTime <= st
         THEN ScanLongest(ps, k + 1, st,
                   IF best = 0 \/ ps[k].BurstDuration > ps[best].BurstDuration
                   THEN k ELSE best)
         ELSE best

\* The selection scan from slot k on: stop at the first slot that has not
\* arrived by st; among the slots before it keep the first of least burst.
\* 0 is the source's -1 (nothing selected).
RECURSIVE Scan(_, _, _, _)
Scan(ps, k, st, best) ==
    IF k > Len(ps) THEN best
    ELSE IF ps[k].ArrivalTime <= st
         THEN Scan(ps, k + 1, st,
                   IF best = 0 \/ ps[k].BurstDuration < ps[best].BurstDuration
                   THEN k ELSE best)
         ELSE best

NextProcess == Scan(processes, lastExecuted + 1, serviceTime, 0)

\* PrioritySkip that skips ahead to the arrival of the last slot.
PrioritySkipToLast ==
    /\ pc = "loop" /\ policy = "Priority"
    /\ Len(processes) > lastExecuted
    /\ NextProcess = 0
    /\ serviceTime' = processes[Len(processes)].ArrivalTime
    /\ UNCHANGED << input, processes, entry, policy, pc, waitingTime, i, lastExecuted,
                    totalWait, totalTurnaround, lastCompletion, schedule, gantt,
                    summary >>
    /\ UNCHANGED rrLocals

\* nextProcess == -1: skip ahead to the arrival of the boundary slot.
PrioritySkip ==
    /\ pc = "loop" /\ policy = "Priority"
    /\ Len(processes) > lastExecuted
    /\ NextProcess = 0
    /\ serviceTime' = processes[lastExecuted + 1].ArrivalTime
    /\ UNCHANGED << input, processes, entry, policy, pc, waitingTime, i, lastExecuted,
                    totalWait, totalTurnaround, lastCompletion, schedule, gantt,
                    summary >>
    /\ UNCHANGED rrLocals

\* PriorityExec without the overwrite of the selected slot.
PriorityExecNoOverwrite ==
    /\ pc = "loop" /\ policy = "Priority"
    /\ Len(processes) > lastExecuted
    /\ NextProcess # 0
    /\ Account(processes[NextProcess], NextProcess)
    /\ lastExecuted' = lastExecuted + 1
    /\ UNCHANGED << input, processes, entry, policy, pc, i, summary >>
    /\ UNCHANGED rrLocals

\* Execute the selected process, then overwrite its slot with the boundary
\* slot's process and advance the boundary.
PriorityExec ==
    /\ pc = "loop" /\ policy = "Priority"
    /\ Len(processes) > lastExecuted
    /\ NextProcess # 0
    /\ Account(processes[NextProcess], NextProcess)
    /\ processes' = [processes EXCEPT ![NextProcess] = processes[lastExecuted + 1]]
    /\ lastExecuted' = lastExecuted + 1
    /\ UNCHANGED << input, entry, policy, pc, i, summary >>
    /\ UNCHANGED rrLocals

PriorityReturn ==
    /\ pc = "loop" /\ policy = "Priority"
    /\ Len(processes) <= lastExecuted
    /\ Averages
    /\ UNCHANGED << input, processes, entry, policy, serviceTime, waitingTime, i,
                    lastExecuted, totalWait, totalTurnaround, lastCompletion,
                    schedule, gantt >>
    /\ UNCHANGED rrLocals

\* ----------------------------------------------------------- Round-robin
\* for len(processes) > 0 && processes[0].ArrivalTime <= currentTime {...}
\* RRSchedule's own slice header starts h slots into the array:
\* processes = processes[1:] moves the header only, never the array.
RECURSIVE Admit(_, _, _)
Admit(q, h, now) ==
    IF h < Len(processes) /\ processes[h + 1].ArrivalTime <= now
    THEN Admit(Append(q, processes[h + 1]), h + 1, now)
    ELSE [queue |-> q, head |-> h]

\* The var block, then sort.Slice by ArrivalTime on the caller's array.  main
\* passes the quantum 1; a direct caller passes any quantum.
CallRR ==
    /\ pc = "call" /\ policy = "RR"
    /\ \E sorted \in SortSlice(processes, "ArrivalTime") :
       \E q \in 1..MaxQuantum :
          /\ entry = "main" => q = DefaultQuantum
          /\ Locals(sorted, q)

\* One pass of the outer loop up to the inner loop: admit the arrived, jump
\* the clock if the queue is empty, then take queue[0].  After the jump the
\* queue is still empty, so queue[0] is out of range and the run panics.
RRDispatch ==
    /\ pc = "loop" /\ policy = "RR"
    /\ Len(queue) > 0 \/ head < Len(processes)
    /\ LET adm == Admit(queue, head, currentTime)
       IN  IF Len(adm.queue) = 0
           THEN /\ currentTime' = processes[adm.head + 1].ArrivalTime
                /\ pc' = "panic"
                /\ queue' = adm.queue
                /\ head' = adm.head
                /\ UNCHANGED << process, start, completion, burstLeft, timeElapsed >>
           ELSE /\ process' = Head(adm.queue)
                /\ queue' = Tail(adm.queue)
                /\ head' = adm.head
                /\ start' = currentTime
                /\ completion' = 0
                /\ burstLeft' = Head(adm.queue).BurstDuration
                /\ timeElapsed' = 0
                /\ pc' = "slice"
                /\ UNCHANGED currentTime
    /\ UNCHANGED << input, processes, entry, policy, serviceTime, waitingTime, i,
                    lastExecuted, totalWait, totalTurnaround, lastCompletion,
                    schedule, gantt, summary, timeSlice >>

\* One pass of the inner loop "for burstLeft > 0": one slice, one interval
\* appended (its Start is the start taken at dispatch), then admission.
RRSlice ==
    /\ pc = "slice" /\ policy = "RR"
    /\ burstLeft > 0
    /\ LET timeSpent == Min(burstLeft, timeSlice)
           adm == Admit(queue, head, currentTime + timeSpent)
       IN  /\ completion' = currentTime + timeSpent
           /\ timeElapsed' = timeElapsed + timeSpent
           /\ currentTime' = currentTime + timeSpent
           /\ burstLeft' = burstLeft - timeSpent
           /\ gantt' = Append(gantt, TimeSlice(process.ProcessID, start, currentTime + timeSpent))
           /\ queue' = adm.queue
           /\ head' = adm.head
    /\ UNCHANGED << input, processes, entry, policy, pc, serviceTime, waitingTime, i,
                    lastExecuted, totalWait, totalTurnaround, lastCompletion,
                    schedule, summary, timeSlice, process, start >>

\* After the inner loop: waiting and turnaround time, the totals, and the
\* row stored at index ProcessID-1 (out of range: panic).
RRRecord ==
    /\ pc = "slice" /\ policy = "RR"
    /\ burstLeft <= 0
    /\ LET wait == currentTime - process.ArrivalTime - process.BurstDuration
           turnaround == wait + process.BurstDuration + timeElapsed
       IN  /\ totalWait' = totalWait + wait
           /\ totalTurnaround' = totalTurnaround + turnaround
           /\ IF process.ProcessID \in 1..Len(schedule)
              THEN /\ schedule' = [schedule EXCEPT ![process.ProcessID] =
                                       Row(process, wait, turnaround, completion)]
                   /\ pc' = "loop"
              ELSE /\ pc' = "panic"
                   /\ UNCHANGED schedule
    /\ UNCHANGED << input, processes, entry, policy, serviceTime, waitingTime, i,
                    lastExecuted, lastCompletion, gantt, summary >>
    /\ UNCHANGED rrLocals

\* The statistics: count is len(schedule), the divisor of the throughput is
\* gantt[len(gantt)-1].Stop (an empty timeline: index -1, panic).
RRReturn ==
    /\ pc = "loop" /\ policy = "RR"
    /\ ~(Len(queue) > 0 \/ head < Len(processes))
    /\ IF Len(gantt) = 0
       THEN /\ pc' = "panic"
            /\ UNCHANGED summary
       ELSE /\ summary' = Summary(totalWait, totalTurnaround, Len(schedule),
                                  gantt[Len(gantt)].Stop)
            /\ pc' = "done"
    /\ UNCHANGED << input, processes, entry, policy, serviceTime, waitingTime, i,
                    lastExecuted, totalWait, totalTurnaround, lastCompletion,
                    schedule, gantt >>
    /\ UNCHANGED rrLocals

\* ------------------------------------------------------------------ main
\* main calls the next policy with the same slice once the last returned.
Successor(p) ==
    CASE p = "FCFS" -> "SJF"
      [] p = "SJF" -> "Priority"
      [] p = "Priority" -> "RR"

MainNext ==
    /\ entry = "main"
    /\ pc = "done" /\ policy # "RR"
    /\ policy' = Successor(policy)
    /\ pc' = "call"
    /\ UNCHANGED << input, processes, entry, serviceTime, waitingTime, i,
                    lastExecuted, totalWait, totalTurnaround, lastCompletion,
                    schedule, gantt, summary >>
    /\ UNCHANGED rrLocals

Init ==
    /\ input \in Inputs
    /\ processes = input
    /\ entry \in { "main", "FCFS", "SJF", "Priority", "RR" }
    /\ policy = (IF entry = "main" THEN "FCFS" ELSE entry)
    /\ pc = "call"
    /\ serviceTime = 0 /\ waitingTime = 0 /\ i = 1 /\ lastExecuted = 0
    /\ totalWait = 0 /\ totalTurnaround = 0 /\ lastCompletion = 0
    /\ schedule = << >> /\ gantt = << >> /\ summary = NoSummary
    /\ timeSlice = 0 /\ currentTime = 0 /\ queue = << >> /\ head = 0
    /\ process = ZeroProcess /\ start = 0 /\ completion = 0
    /\ burstLeft = 0 /\ timeElapsed = 0

Next ==
    \/ CallFCFS
    \/ FCFSIter
    \/ FCFSReturn
    \/ CallSJF
    \/ SJFIter
    \/ SJFReturn
    \/ CallPriority
    \/ PrioritySkip
    \/ PriorityExec
    \/ PriorityReturn
    \/ CallRR
    \/ RRDispatch
    \/ RRSlice
    \/ RRRecord
    \/ RRReturn
    \/ MainNext

Spec == Init /\ [][Next]_vars

\* The program is sequential and nothing blocks it: whenever a step is
\* possible, one is taken.
FairSpec == Spec /\ WF_vars(Next)

\* ================================================================ claims
\* The running policy was called with the list exactly as loaded, and the
\* sort it starts with has a single possible outcome on that list (no two
\* processes tie on the sort key), so nothing below rests on how sort.Slice
\* happens to order ties.
NoTie(s, key) == \A x, y \in 1..Len(s) : x # y => s[x][key] # s[y][key]

Direct ==
    /\ entry = policy
    /\ policy = "SJF" => NoTie(input, "BurstDuration")
    /\ policy \in { "Priority", "RR" } => NoTie(input, "ArrivalTime")

Slots == 1..Len(gantt)

PIDs == { gantt[k].PID : k \in Slots }

RECURSIVE DurationOf(_, _)
DurationOf(g, pid) ==
    IF g = << >> THEN 0
    ELSE (IF Head(g).PID = pid THEN Head(g).Stop - Head(g).Start ELSE 0)
         + DurationOf(Tail(g), pid)

Rows == { k \in 1..Len(schedule) : schedule[k] # NilRow }

\* C1: when a policy has returned, the durations of the timeline intervals
\* of each process add up to the process's burstDuration.
C1_IntervalsSumToBurst ==
    (Direct /\ pc = "done") =>
        \A k \in 1..Len(input) :
            DurationOf(gantt, input[k].ProcessID) = input[k].BurstDuration

\* C2: every timeline interval has Start < Stop, no two intervals overlap,
\* and the intervals are emitted in order of non-decreasing Start.
C2_TimelineSequential ==
    Direct =>
        /\ \A k \in Slots : gantt[k].Start < gantt[k].Stop
        /\ \A k, l \in Slots : k < l =>
              /\ gantt[k].Stop <= gantt[l].Start
              /\ gantt[k].Start <= gantt[l].Start

\* C3: Round-robin preempts.  A process that has just run a slice and has
\* burst left does not run the next slice while other processes are ready;
\* and on the example with quantum 1, once P2 has arrived (time 2) no two
\* consecutive slices belong to the same process.
C3_PreemptedGoesToBack ==
    (Direct /\ policy = "RR") =>
        /\ (pc = "slice" /\ burstLeft > 0 /\ gantt # << >>
              /\ gantt[Len(gantt)].PID = process.ProcessID)
           => queue = << >>
        /\ (pc = "done" /\ input = ExampleProcesses /\ timeSlice = 1)
           => \A k \in Slots :
                 (k < Len(gantt) /\ gantt[k].Stop > 2) => gantt[k].PID # gantt[k + 1].PID

\* C4: no Round-robin interval is longer than the quantum.
C4_SliceWithinQuantum ==
    (Direct /\ policy = "RR") =>
        \A k \in Slots : gantt[k].Stop - gantt[k].Start <= timeSlice

\* C5: Round-robin idle skip.  When the ready queue is empty after admission
\* and processes remain, the pass of the loop moves currentTime to the next
\* arrival, emits no interval and goes on to run that process.
C5_IdleSkipRuns ==
    [][ (policy = "RR" /\ pc = "loop" /\ head < Len(processes)
           /\ Admit(queue, head, currentTime).queue = << >>)
        => /\ currentTime' = processes[head + 1].ArrivalTime
           /\ gantt' = gantt
           /\ pc' = "slice"
           /\ process' = processes[head + 1] ]_vars

\* C6: every result row has turnaround = wait + burst and
\* exit = arrival + wait + burst.
C6_RowIdentities ==
    Direct =>
        \A k \in Rows :
            /\ schedule[k].Turnaround = schedule[k].Wait + schedule[k].Burst
            /\ schedule[k].Exit = schedule[k].Arrival + schedule[k].Wait + schedule[k].Burst

\* C7: the waiting time of every result row is >= 0.
C7_WaitNonNegative ==
    Direct => \A k \in Rows : schedule[k].Wait >= 0

\* C8: a policy leaves the caller's list as it was loaded: before every call
\* and after every return the shared array equals the loaded list.
\* In main (on lists where neither sort key has a tie) each policy is handed
\* the list as it was loaded.
C8_ListUnchanged ==
    /\ (Direct /\ (pc = "call" \/ pc = "done")) => processes = input
    /\ (entry = "main" /\ pc = "call"
          /\ NoTie(input, "BurstDuration") /\ NoTie(input, "ArrivalTime"))
       => processes = input

\* The input processes no timeline interval names yet, and those of them
\* that have arrived by serviceTime.
Unexecuted == { input[k] : k \in { j \in 1..Len(input) : input[j].ProcessID \notin PIDs } }

ArrivedUnexecuted == { p \in Unexecuted : p.ArrivalTime <= serviceTime }

\* C9: at every decision point of the Priority policy where some unexecuted
\* process has arrived, the scan selects an arrived unexecuted process whose
\* burst is the least among all arrived unexecuted processes.
C9_SelectsLeastBurst ==
    (policy = "Priority" /\ pc = "loop" /\ ArrivedUnexecuted # {}) =>
        /\ NextProcess # 0
        /\ processes[NextProcess] \in ArrivedUnexecuted
        /\ \A p \in ArrivedUnexecuted :
              processes[NextProcess].BurstDuration <= p.BurstDuration

\* Witness of C9: a later decision point, after an overwrite has left the
\* pending slots out of arrival order, with arrived candidates of different
\* burst to choose from.
C9_Witness ==
    /\ policy = "Priority" /\ pc = "loop"
    /\ lastExecuted >= 1
    /\ \E j, k \in (lastExecuted + 1)..Len(processes) :
          j < k /\ processes[j].ArrivalTime > processes[k].ArrivalTime
    /\ NextProcess # 0
    /\ \E p \in ArrivedUnexecuted :
          p.BurstDuration > processes[NextProcess].BurstDuration

\* C10: after the Priority policy has returned, the table has no empty row
\* and every input process has exactly one row.
C10_OneRowPerProcess ==
    (Direct /\ policy = "Priority" /\ pc = "done") =>
        /\ \A k \in 1..Len(schedule) : schedule[k] # NilRow
        /\ \A j \in 1..Len(input) :
              Cardinality({ k \in Rows : schedule[k].ID = input[j].ProcessID }) = 1

\* A summary whose three figures are zero (a quotient 0/d with d # 0); a
\* quotient with divisor 0 is NaN or +Inf.
IsZero(r) == r.num = 0 /\ r.den # 0

\* C11: on the empty list every policy returns without a crash, with an empty
\* timeline, an empty table and a summary of three zeros.
C11_EmptyInputZeroSummary ==
    (Direct /\ input = << >> /\ pc # "call") =>
        /\ pc # "panic"
        /\ gantt = << >> /\ schedule = << >>
        /\ pc = "done" =>
              /\ IsZero(summary.aveWait)
              /\ IsZero(summary.aveTurnaround)
              /\ IsZero(summary.aveThroughput)

\* The place of process pid in the loaded list.
Pos(pid) == CHOOSE j \in 1..Len(input) : input[j].ProcessID = pid

\* C12: SJF services the processes in non-decreasing burstDuration order, and
\* processes of equal burstDuration in the order of the loaded list.
C12_SJFStableOrder ==
    (entry = "SJF") =>
        \A k, l \in Slots : k < l =>
            /\ input[Pos(gantt[k].PID)].BurstDuration <= input[Pos(gantt[l].PID)].BurstDuration
            /\ input[Pos(gantt[k].PID)].BurstDuration = input[Pos(gantt[l].PID)].BurstDuration
                  => Pos(gantt[k].PID) < Pos(gantt[l].PID)

\* The greatest completion time of the table's rows.
LastExit == CHOOSE m \in { schedule[k].Exit : k \in Rows } :
                \A k \in Rows : schedule[k].Exit <= m

\* C13: the reported throughput is the process count divided by the greatest
\* completionTime of the run's rows.
C13_ThroughputByLastExit ==
    (Direct /\ pc = "done" /\ Rows # {}) =>
        /\ summary.aveThroughput.num = Len(input)
        /\ summary.aveThroughput.den = LastExit

\* C14: when FCFS or SJF has returned, the table has one row and the timeline
\* one interval for each input process, and nothing else.
C14_OneRowOneIntervalEach ==
    (policy \in { "FCFS", "SJF" } /\ pc = "done") =>
        /\ Len(schedule) = Len(input) /\ Len(gantt) = Len(input)
        /\ \A k \in 1..Len(schedule) : schedule[k] # NilRow
        /\ \A j \in 1..Len(input) :
              /\ Cardinality({ k \in Rows : schedule[k].ID = input[j].ProcessID }) = 1
              /\ Cardinality({ k \in Slots : gantt[k].PID = input[j].ProcessID }) = 1

\* Witness of C14: SJF has returned after reordering a list of several
\* processes.
C14_Witness ==
    /\ policy = "SJF" /\ pc = "done"
    /\ Len(input) >= 3
    /\ processes # input

\* The row of process pid, and the order in which the timeline names the
\* processes.
RowOf(pid) == schedule[CHOOSE k \in Rows : schedule[k].ID = pid]

ServiceOrder == [k \in Slots |-> gantt[k].PID]

HasRows(ids) == \A pid \in ids : \E k \in Rows : schedule[k].ID = pid

\* C15: on the example SJF services P3, P2, P1 with completion times 1, 4, 9
\* and waiting times 0, 0, 4 (total 4, average 4/3).
C15_SJFExample ==
    (policy = "SJF" /\ input = ExampleProcesses /\ pc = "done") =>
        /\ ServiceOrder = << 3, 2, 1 >>
        /\ HasRows({ 1, 2, 3 })
        /\ RowOf(3).Exit = 1 /\ RowOf(2).Exit = 4 /\ RowOf(1).Exit = 9
        /\ RowOf(3).Wait = 0 /\ RowOf(2).Wait = 0 /\ RowOf(1).Wait = 4
        /\ summary.aveWait = Ratio(4, 3)

\* C16 as claimed: on the example FCFS yields completion times 5, 8, 9 and
\* waiting times 0, 3, 5 (total 8, average 8/3).
C16_FCFSExampleAsClaimed ==
    (policy = "FCFS" /\ input = ExampleProcesses /\ pc = "done") =>
        /\ HasRows({ 1, 2, 3 })
        /\ RowOf(1).Exit = 5 /\ RowOf(2).Exit = 8 /\ RowOf(3).Exit = 9
        /\ RowOf(1).Wait = 0 /\ RowOf(2).Wait = 3 /\ RowOf(3).Wait = 5
        /\ summary.aveWait = Ratio(8, 3)

\* C16 as amended: on the example FCFS yields completion times 5, 8, 9 and
\* waiting times 0, 3, 4 (total 7, average 7/3).
C16_FCFSExample ==
    (policy = "FCFS" /\ input = ExampleProcesses /\ pc = "done") =>
        /\ HasRows({ 1, 2, 3 })
        /\ RowOf(1).Exit = 5 /\ RowOf(2).Exit = 8 /\ RowOf(3).Exit = 9
        /\ RowOf(1).Wait = 0 /\ RowOf(2).Wait = 3 /\ RowOf(3).Wait = 4
        /\ summary.aveWait = Ratio(7, 3)

\* Witness of C16: FCFS has returned on the example.
C16_Witness ==
    /\ policy = "FCFS" /\ input = ExampleProcesses /\ pc = "done"
    /\ ServiceOrder = << 1, 2, 3 >>

\* C17: Priority idle skip.  Whenever processes are left and none of them has
\* arrived by serviceTime, the boundary slot holds an unexecuted process of
\* least arrivalTime among the unexecuted ones, the step moves serviceTime to
\* exactly that arrival, emits no interval, and the scan of the next
\* iteration selects a process.
C17_IdleSkipToEarliest ==
    [][ (policy = "Priority" /\ pc = "loop" /\ Unexecuted # {} /\ ArrivedUnexecuted = {})
        => /\ lastExecuted < Len(processes)
           /\ processes[lastExecuted + 1] \in Unexecuted
           /\ \A p \in Unexecuted : processes[lastExecuted + 1].ArrivalTime <= p.ArrivalTime
           /\ serviceTime' = processes[lastExecuted + 1].ArrivalTime
           /\ gantt' = gantt
           /\ pc' = "loop"
           /\ NextProcess' # 0 ]_vars

\* Witness of C17: the skip has just been taken (serviceTime stands at the
\* boundary slot's arrival, past the end of the last interval) with two
\* processes pending, after executions whose overwrites left a process
\* stored in two slots.
C17_Witness ==
    /\ policy = "Priority" /\ pc = "loop"
    /\ lastExecuted >= 2 /\ lastExecuted < Len(processes)
    /\ gantt # << >> /\ gantt[Len(gantt)].Stop < serviceTime
    /\ serviceTime = processes[lastExecuted + 1].ArrivalTime
    /\ Cardinality(Unexecuted) >= 2
    /\ \E j, k \in 1..Len(processes) : j < k /\ processes[j] = processes[k]

\* The input process of id pid.
InputOf(pid) == input[CHOOSE j \in 1..Len(input) : input[j].ProcessID = pid]

\* C18: latched waiting time in FCFS, SJF and Priority.  On every step that
\* services a process, a process with arrivalTime = 0 is given the waiting
\* time given to the process serviced just before it (0 if it is the first),
\* and a process with arrivalTime > 0 is given serviceTime - arrivalTime; the
\* row written and the interval emitted carry that waiting time.
C18_LatchedWait ==
    [][ (policy \in { "FCFS", "SJF", "Priority" } /\ Len(gantt') = Len(gantt) + 1)
        => LET last  == gantt'[Len(gantt')]
               p     == InputOf(last.PID)
               given == IF p.ArrivalTime > 0 THEN serviceTime - p.ArrivalTime
                        ELSE IF gantt = << >> THEN 0
                        ELSE waitingTime
           IN  /\ waitingTime' = given
               /\ last.Start = given + p.ArrivalTime
               /\ \E k \in 1..Len(schedule') :
                     /\ schedule'[k] # NilRow
                     /\ schedule'[k].ID = p.ProcessID
                     /\ schedule'[k].Wait = given ]_vars

\* Witness of C18: a process that arrived at 0 was serviced after another
\* one and its row carries that one's waiting time, which is not
\* serviceTime - arrivalTime (the interval's Stop minus the burst).
C18_Witness ==
    /\ policy \in { "FCFS", "SJF", "Priority" }
    /\ Len(gantt) >= 2
    /\ LET last == gantt[Len(gantt)]
           prev == gantt[Len(gantt) - 1]
       IN  /\ InputOf(last.PID).ArrivalTime = 0
           /\ HasRows({ last.PID, prev.PID })
           /\ RowOf(last.PID).Wait = RowOf(prev.PID).Wait
           /\ RowOf(last.PID).Wait # last.Stop - InputOf(last.PID).BurstDuration

\* The number of timeline intervals of process pid.
Intervals(pid) == Cardinality({ k \in Slots : gantt[k].PID = pid })

\* C19: Priority policy termination and completeness.  The selection loop
\* never emits a second interval for a process, it ends, and when it has
\* ended every input process has exactly one interval.
C19_PriorityCompletes ==
    /\ [](policy = "Priority" =>
            /\ \A j \in 1..Len(input) : Intervals(input[j].ProcessID) <= 1
            /\ pc = "done" =>
                  /\ Len(gantt) = Len(input)
                  /\ \A j \in 1..Len(input) : Intervals(input[j].ProcessID) = 1)
    /\ (policy = "Priority" /\ pc = "loop") ~> (policy = "Priority" /\ pc = "done")

\* Witness of C19: the Priority policy has returned on a list of at least
\* three processes after overwrites that left a process stored in two slots.
C19_Witness ==
    /\ policy = "Priority" /\ pc = "done"
    /\ Len(input) >= 3 /\ Len(gantt) = Len(input)
    /\ \E j, k \in 1..Len(processes) : j < k /\ processes[j] = processes[k]

\* The slot of the last timeline interval of process pid.
LastSlot(pid) ==
    CHOOSE s \in Slots : gantt[s].PID = pid /\ \A t \in Slots : gantt[t].PID = pid => t <= s

\* C20: timeline and table agree.  When a policy has returned, the
\* completion time of every row is the Stop of the last interval of the
\* row's process, and the waiting time of a row whose process ran in a single
\* interval is that interval's Start minus the arrival time.
C20_TimelineMatchesTable ==
    (Direct /\ pc = "done") =>
        \A k \in Rows :
            /\ Intervals(schedule[k].ID) >= 1
            /\ schedule[k].Exit = gantt[LastSlot(schedule[k].ID)].Stop
            /\ Intervals(schedule[k].ID) = 1 =>
                  schedule[k].Wait = gantt[LastSlot(schedule[k].ID)].Start - schedule[k].Arrival

====
